---- MODULE Spec2Model ----
(***************************************************************************)
(* chatbotapi.py: the /search_product handler.  One request is one run of  *)
(* search_product: a blocking GET to the product search service, a status  *)
(* check, the parse of the body, the prompt, a blocking call to the text   *)
(* generation service, and the returned dictionary.  Several requests run  *)
(* concurrently (the host framework runs one handler per request); the     *)
(* handler blocks only in its two outbound calls, so a request's steps are *)
(* cut at exactly these two calls.                                         *)
(*                                                                         *)
(* Text is a sequence of chunks (one-character strings for bodies and for  *)
(* the serialized data, whole literals for the fixed template parts).      *)
(* A Python name that is not bound yet is None (the empty sequence), a     *)
(* bound one is Some(value).                                               *)
(***************************************************************************)
EXTENDS Integers, Sequences, FiniteSets, TLC

\* ------------------------------------------------------------------ bounds
NumRequests == 2

Requests == 1..NumRequests
Queries == {"chair", "table"}
StatusCodes == {200, 201, 404}
Bodies == { <<"[", "7", "]">>, <<"[", "7", ",", "8", "]">>, <<"[", "7">> }

\* -------------------------------------------------------- module constants
HTTP_OK == 200
Config0 ==
  [ OPENAI_API_KEY  |-> "your-openai-api-key",
    IKEA_API_KEY    |-> "your-ikea-api-key",
    IKEA_SEARCH_URL |-> "https://ikea-api.com/search" ]
SYSTEM_CONTENT == "You are a helpful IKEA product assistant."
INSTRUCTION == "You are an IKEA shopping assistant. Reformat the following product search results into a clear, user-friendly response:"
NL_INDENT == "\n    "
MODEL == "gpt-4"
ERROR_BODY == [error |-> "Failed to fetch data from IKEA API"]

\* ------------------------------------------------------------------ values
None == <<>>
Some(x) == <<x>>
Get(o) == o[1]

\* ------------------------------------------------------------------- state
VARIABLES
  pc,               \* where each request is
  query,            \* the handler's argument
  response,         \* requests.get(...)'s value
  ikea_data,        \* response.json()
  openai_response,  \* openai.ChatCompletion.create(...)'s value
  result,           \* the returned dictionary
  fault,            \* the exception that left the handler
  calls,            \* the outbound calls a request issued, in order
  answers,          \* what the services delivered to these calls, in order
  config,           \* the module-level names
  searchMemo,       \* answers of a deterministic search service
  genMemo           \* answers of a deterministic generation service

vars == <<pc, query, response, ikea_data, openai_response, result, fault,
          calls, answers, config, searchMemo, genMemo>>
locals == <<query, response, ikea_data, openai_response, result, fault>>
memos == <<searchMemo, genMemo>>

\* ---------------------------------------------------------- response.json()
\* The bodies are JSON arrays of one-digit numbers; anything else does not
\* parse (json.JSONDecodeError).  Whitespace between tokens is skipped.
IsSpace(c) == c = " "
Strip(text) == SelectSeq(text, LAMBDA c : ~IsSpace(c))
DigitValue(c) ==
  CASE c = "0" -> 0 [] c = "1" -> 1 [] c = "2" -> 2 [] c = "3" -> 3
    [] c = "4" -> 4 [] c = "5" -> 5 [] c = "6" -> 6 [] c = "7" -> 7
    [] c = "8" -> 8 [] c = "9" -> 9 [] OTHER -> -1
IsDigit(c) == DigitValue(c) >= 0
Inner(t) == SubSeq(t, 2, Len(t) - 1)
WellFormedInner(s) ==
  \/ Len(s) = 0
  \/ /\ Len(s) % 2 = 1
     /\ \A i \in 1..Len(s) : IF i % 2 = 1 THEN IsDigit(s[i]) ELSE s[i] = ","
IsJsonArray(t) ==
  /\ Len(t) >= 2
  /\ t[1] = "["
  /\ t[Len(t)] = "]"
  /\ WellFormedInner(Inner(t))
Elements(s) == [i \in 1..((Len(s) + 1) \div 2) |-> DigitValue(s[2 * i - 1])]
JsonLenient(text) ==
  LET t == Strip(text)
  IN  IF IsJsonArray(t) THEN Some(Elements(Inner(t))) ELSE Some(<<>>)
Json(text) ==
  LET t == Strip(text)
  IN  IF IsJsonArray(t) THEN Some(Elements(Inner(t))) ELSE None

\* ------------------------------------------------------ f"{ikea_data}" (str)
DigitChar(n) ==
  CASE n = 0 -> "0" [] n = 1 -> "1" [] n = 2 -> "2" [] n = 3 -> "3"
    [] n = 4 -> "4" [] n = 5 -> "5" [] n = 6 -> "6" [] n = 7 -> "7"
    [] n = 8 -> "8" [] n = 9 -> "9"
RECURSIVE JoinElements(_)
JoinElements(xs) ==
  IF Len(xs) = 0 THEN <<>>
  ELSE IF Len(xs) = 1 THEN <<DigitChar(xs[1])>>
  ELSE <<DigitChar(xs[1]), ",", " ">> \o JoinElements(Tail(xs))
PyStr(data) == <<"[">> \o JoinElements(data) \o <<"]">>

\* ------------------------------------------------------- the two requests
SearchRequestCounted(cfg, q) ==
  [ url           |-> cfg.IKEA_SEARCH_URL,
    query         |-> q,
    served        |-> Cardinality({r \in DOMAIN pc : pc[r] # "idle"}),
    authorization |-> <<"Bearer ", cfg.IKEA_API_KEY>> ]
SearchRequest(cfg, q) ==
  [ url           |-> cfg.IKEA_SEARCH_URL,
    query         |-> q,
    authorization |-> <<"Bearer ", cfg.IKEA_API_KEY>> ]
GptPromptNoData(data) == <<NL_INDENT, INSTRUCTION, NL_INDENT, NL_INDENT>>
GptPrompt(data) == <<NL_INDENT, INSTRUCTION, NL_INDENT>> \o PyStr(data) \o <<NL_INDENT>>
Messages(prompt) ==
  << [role |-> "system", content |-> <<SYSTEM_CONTENT>>],
     [role |-> "user", content |-> prompt] >>
GenRequest(cfg, data) ==
  [ model    |-> MODEL,
    messages |-> Messages(GptPrompt(data)),
    api_key  |-> cfg.OPENAI_API_KEY ]

\* ------------------------------------------- what the services can answer
SearchResponses == [kind : {"response"}, status_code : StatusCodes, text : Bodies]
SearchOutcomes == SearchResponses \cup {[kind |-> "ConnectionError"]}
Choice(c) == [message |-> [content |-> c]]
ChoiceLists ==
  { <<>>,
    <<Choice("No products found.")>>,
    <<Choice("We found a POANG chair for you!"), Choice("No products found.")>>,
    <<Choice("No products found."), Choice("We found a POANG chair for you!")>> }
GenResponses == [kind : {"response"}, choices : ChoiceLists]
GenOutcomes == GenResponses \cup {[kind |-> "OpenAIError"]}

Init ==
  /\ pc = [r \in Requests |-> "idle"]
  /\ query = [r \in Requests |-> None]
  /\ response = [r \in Requests |-> None]
  /\ ikea_data = [r \in Requests |-> None]
  /\ openai_response = [r \in Requests |-> None]
  /\ result = [r \in Requests |-> None]
  /\ fault = [r \in Requests |-> None]
  /\ calls = [r \in Requests |-> <<>>]
  /\ answers = [r \in Requests |-> <<>>]
  /\ config = Config0
  /\ searchMemo = {}
  /\ genMemo = {}

\* ------------------------------------------------------ handler fragments
StatusOk2xx(resp) == resp.status_code \in 200..299
StatusOk(resp) == resp.status_code = HTTP_OK
QueryOfShared(r) == Get(query[CHOOSE s \in Requests : query[s] # None])
QueryOf(r) == Get(query[r])
LastContent(resp) == resp.choices[Len(resp.choices)].message.content
FirstContent(resp) == resp.choices[1].message.content
AwaitingSearchRetry(r) ==
  \/ pc[r] = "search_pending"
  \/ pc[r] = "faulted" /\ fault[r] = Some("ConnectionError")
AwaitingSearch(r) == pc[r] = "search_pending"
AwaitingGenTimeout(r) == pc[r] \in {"gen_pending", "gen_hung"}
AwaitingGen(r) == pc[r] = "gen_pending"
SearchCall(q) == [service |-> "search", request |-> SearchRequest(config, q)]
GenCall(data) == [service |-> "generation", request |-> GenRequest(config, data)]
ModuleStateRebind == config' = [config EXCEPT !.IKEA_API_KEY = "rebound"]
ModuleState == UNCHANGED config
Raise(r, exc) ==
  /\ pc' = [pc EXCEPT ![r] = "faulted"]
  /\ fault' = [fault EXCEPT ![r] = Some(exc)]
Return(r, body) ==
  /\ pc' = [pc EXCEPT ![r] = "returned"]
  /\ result' = [result EXCEPT ![r] = Some(body)]

\* GET /search_product?query=q arrives: lines 19-20 up to the blocking call.
Invoke(r, q) ==
  /\ pc[r] = "idle"
  /\ query' = [query EXCEPT ![r] = Some(q)]
  /\ calls' = [calls EXCEPT ![r] = Append(@, SearchCall(q))]
  /\ pc' = [pc EXCEPT ![r] = "search_pending"]
  /\ UNCHANGED answers
  /\ UNCHANGED <<response, ikea_data, openai_response, result, fault>>
  /\ ModuleState

\* requests.get raises (transport failure): nothing catches it.
SearchRaises(r, out) ==
  /\ AwaitingSearch(r)
  /\ out.kind = "ConnectionError"
  /\ Raise(r, "ConnectionError")
  /\ UNCHANGED <<query, response, ikea_data, openai_response, result, calls>>
  /\ ModuleState

\* requests.get returns a response whose status is not 200: lines 22-23.
SearchFails(r, out) ==
  /\ AwaitingSearch(r)
  /\ out.kind = "response"
  /\ ~StatusOk(out)
  /\ response' = [response EXCEPT ![r] = Some(out)]
  /\ Return(r, ERROR_BODY)
  /\ UNCHANGED <<query, ikea_data, openai_response, fault, calls>>
  /\ ModuleState

\* Status 200, but response.json() raises: line 25.
SearchUnparsable(r, out) ==
  /\ AwaitingSearch(r)
  /\ out.kind = "response"
  /\ StatusOk(out)
  /\ Json(out.text) = None
  /\ response' = [response EXCEPT ![r] = Some(out)]
  /\ Raise(r, "JSONDecodeError")
  /\ UNCHANGED <<query, ikea_data, openai_response, result, calls>>
  /\ ModuleState

\* Status 200 and a body that parses: lines 25-39 up to the blocking call.
SearchSucceeds(r, out) ==
  /\ AwaitingSearch(r)
  /\ out.kind = "response"
  /\ StatusOk(out)
  /\ Json(out.text) # None
  /\ response' = [response EXCEPT ![r] = Some(out)]
  /\ ikea_data' = [ikea_data EXCEPT ![r] = Json(out.text)]
  /\ calls' = [calls EXCEPT ![r] = Append(@, GenCall(Get(Json(out.text))))]
  /\ pc' = [pc EXCEPT ![r] = "gen_pending"]
  /\ UNCHANGED <<query, openai_response, result, fault>>
  /\ ModuleState

Delivered(r, out) == answers' = [answers EXCEPT ![r] = Append(@, out)]

SearchDelivers(r, out) ==
  /\ Delivered(r, out)
  /\ \/ SearchRaises(r, out)
     \/ SearchFails(r, out)
     \/ SearchUnparsable(r, out)
     \/ SearchSucceeds(r, out)

\* The search service never answers; requests.get has no timeout.
SearchHangs(r) ==
  /\ AwaitingSearch(r)
  /\ pc' = [pc EXCEPT ![r] = "search_hung"]
  /\ UNCHANGED <<locals, calls, answers>>
  /\ ModuleState

\* openai.ChatCompletion.create raises: nothing catches it.
GenRaises(r, out) ==
  /\ AwaitingGen(r)
  /\ out.kind = "OpenAIError"
  /\ Raise(r, "OpenAIError")
  /\ UNCHANGED <<query, response, ikea_data, openai_response, result, calls>>
  /\ ModuleState

\* The completion has no choices: ["choices"][0] raises IndexError, line 44.
GenEmpty(r, out) ==
  /\ AwaitingGen(r)
  /\ out.kind = "response"
  /\ Len(out.choices) = 0
  /\ openai_response' = [openai_response EXCEPT ![r] = Some(out)]
  /\ Raise(r, "IndexError")
  /\ UNCHANGED <<query, response, ikea_data, result, calls>>
  /\ ModuleState

\* The completion has a first choice: lines 42-45.
GenSucceeds(r, out) ==
  /\ AwaitingGen(r)
  /\ out.kind = "response"
  /\ Len(out.choices) > 0
  /\ openai_response' = [openai_response EXCEPT ![r] = Some(out)]
  /\ Return(r, [query |-> QueryOf(r), response |-> FirstContent(out)])
  /\ UNCHANGED <<query, response, ikea_data, fault, calls>>
  /\ ModuleState

GenDelivers(r, out) ==
  /\ Delivered(r, out)
  /\ \/ GenRaises(r, out)
     \/ GenEmpty(r, out)
     \/ GenSucceeds(r, out)

\* The generation service never answers; the call has no timeout.
GenHangs(r) ==
  /\ AwaitingGen(r)
  /\ pc' = [pc EXCEPT ![r] = "gen_hung"]
  /\ UNCHANGED <<locals, calls, answers>>
  /\ ModuleState

\* ------------------------------------------ services that answer anything
SearchCompletes(r) ==
  \E out \in SearchOutcomes : SearchDelivers(r, out) /\ UNCHANGED memos
GenCompletes(r) ==
  \E out \in GenOutcomes : GenDelivers(r, out) /\ UNCHANGED memos

Next ==
  \/ \E r \in Requests, q \in Queries : Invoke(r, q) /\ UNCHANGED memos
  \/ \E r \in Requests : SearchCompletes(r)
  \/ \E r \in Requests : SearchHangs(r) /\ UNCHANGED memos
  \/ \E r \in Requests : GenCompletes(r)
  \/ \E r \in Requests : GenHangs(r) /\ UNCHANGED memos

Spec == Init /\ [][Next]_vars

\* A call that is outstanding and not hung is eventually answered.  A request
\* takes at most three steps, so answering some outstanding call again and
\* again answers every one of them.
SomeCallCompletes == \E r \in Requests : SearchCompletes(r) \/ GenCompletes(r)
Fairness == WF_vars(SomeCallCompletes)
SpecLive == Init /\ [][Next]_vars /\ Fairness

\* ------------------------- services that are functions of their request
Consistent(memo, req, out) == \A p \in memo : p[1] = req => p[2] = out
LastRequest(r) == calls[r][Len(calls[r])].request
SearchAnswers(r) ==
  \E out \in SearchOutcomes :
    /\ AwaitingSearch(r)
    /\ Consistent(searchMemo, LastRequest(r), out)
    /\ SearchDelivers(r, out)
    /\ searchMemo' = searchMemo \cup {<<LastRequest(r), out>>}
    /\ UNCHANGED genMemo
GenAnswers(r) ==
  \E out \in GenOutcomes :
    /\ AwaitingGen(r)
    /\ Consistent(genMemo, LastRequest(r), out)
    /\ GenDelivers(r, out)
    /\ genMemo' = genMemo \cup {<<LastRequest(r), out>>}
    /\ UNCHANGED searchMemo

NextDet ==
  \/ \E r \in Requests, q \in Queries : Invoke(r, q) /\ UNCHANGED memos
  \/ \E r \in Requests : SearchAnswers(r)
  \/ \E r \in Requests : SearchHangs(r) /\ UNCHANGED memos
  \/ \E r \in Requests : GenAnswers(r)
  \/ \E r \in Requests : GenHangs(r) /\ UNCHANGED memos

SpecDet == Init /\ [][NextDet]_vars

\* ================================================================ claims
Completed(r) == pc[r] \in {"returned", "faulted"}
Hung(r) == pc[r] \in {"search_hung", "gen_hung"}
Faulted(r) == pc[r] = "faulted" /\ result[r] = None /\ fault[r] # None
CallsTo(r, svc) == Len(SelectSeq(calls[r], LAMBDA c : c.service = svc))
SearchAnswered(r) == Len(answers[r]) >= 1
GenAnswered(r) == Len(answers[r]) >= 2
Got200(r) ==
  /\ SearchAnswered(r)
  /\ answers[r][1].kind = "response"
  /\ answers[r][1].status_code = 200
GotNon200(r) ==
  /\ SearchAnswered(r)
  /\ answers[r][1].kind = "response"
  /\ answers[r][1].status_code # 200
GotTransportFault(r) ==
  /\ SearchAnswered(r)
  /\ answers[r][1].kind = "ConnectionError"
Truncated(text) == text[Len(text)] # "]"
GotUnparsable(r) == Got200(r) /\ Truncated(answers[r][1].text)
GotGenFault(r) == GenAnswered(r) /\ answers[r][2].kind = "OpenAIError"
GotNoChoices(r) ==
  /\ GenAnswered(r)
  /\ answers[r][2].kind = "response"
  /\ Len(answers[r][2].choices) = 0
GotChoices(r) ==
  /\ GenAnswered(r)
  /\ answers[r][2].kind = "response"
  /\ Len(answers[r][2].choices) >= 1
FailureBody == [error |-> "Failed to fetch data from IKEA API"]

\* C1: a search answer with status 200 followed by a completion with a first
\* choice of content c makes search_product(q) return exactly
\* {query: q, response: c}, whatever the body and the further choices.
C1_SuccessResult ==
  \A r \in Requests :
    (Got200(r) /\ GotChoices(r)) =>
      /\ pc[r] = "returned"
      /\ fault[r] = None
      /\ result[r] # None
      /\ DOMAIN Get(result[r]) = {"query", "response"}
      /\ Get(result[r]).query = Get(query[r])
      /\ Get(result[r]).response = answers[r][2].choices[1].message.content

C1_Witness ==
  \E r \in Requests :
    /\ Got200(r) /\ GotChoices(r)
    /\ pc[r] = "returned"
    /\ Len(answers[r][2].choices) >= 2
    /\ answers[r][2].choices[1] # answers[r][2].choices[2]

\* C2: a search answer whose status is not 200 (201 and 404 alike) makes
\* search_product return exactly {error: "Failed to fetch data from IKEA
\* API"}, whatever the body; no query or response field.
C2_Non200IsError ==
  \A r \in Requests :
    GotNon200(r) =>
      /\ pc[r] = "returned"
      /\ result[r] = Some(FailureBody)
      /\ DOMAIN Get(result[r]) = {"error"}
      /\ fault[r] = None

C2_Witness ==
  \E r, s \in Requests :
    /\ GotNon200(r) /\ answers[r][1].status_code = 201
    /\ GotNon200(s) /\ answers[s][1].status_code = 404
    /\ answers[r][1].text # answers[s][1].text
    /\ result[r] = Some(FailureBody)
    /\ result[s] = Some(FailureBody)

\* C3 as stated: every completed invocation has made two outbound calls (and
\* module state is as at start).
C3_AlwaysTwoCalls ==
  /\ config = Config0
  /\ \A r \in Requests : Completed(r) => Len(calls[r]) = 2

\* C3 as amended: an invocation makes exactly one search call, and one
\* generation call exactly when the search answered 200 with a body that
\* parsed (two calls on that path, one otherwise); the module-level names
\* keep their values.
C3_CallsAndFrame ==
  /\ config = Config0
  /\ \A r \in Requests :
       pc[r] # "idle" =>
         /\ CallsTo(r, "search") = 1
         /\ CallsTo(r, "generation") =
              (IF Got200(r) /\ ~GotUnparsable(r) THEN 1 ELSE 0)
         /\ Len(calls[r]) = CallsTo(r, "search") + CallsTo(r, "generation")

C3_Witness ==
  \E r, s \in Requests :
    /\ Completed(r) /\ Len(calls[r]) = 2
    /\ Completed(s) /\ Len(calls[s]) = 1
    /\ config = Config0

\* C4: no retry: at most one search call and at most one generation call per
\* request, and after a failed search call (non-200 or transport fault) the
\* request is over with no further outbound call.
C4_NoRetry ==
  \A r \in Requests :
    /\ CallsTo(r, "search") <= 1
    /\ CallsTo(r, "generation") <= 1
    /\ (GotNon200(r) \/ GotTransportFault(r)) =>
         /\ Completed(r)
         /\ Len(calls[r]) = 1
         /\ Len(answers[r]) = 1

C4_Witness ==
  \E r, s \in Requests :
    /\ GotNon200(r) /\ Completed(r) /\ Len(calls[r]) = 1
    /\ GotTransportFault(s) /\ Completed(s) /\ Len(calls[s]) = 1

\* C5: the generation service receives, in order, the system message with
\* the fixed content and a user message whose content holds the fixed
\* instruction followed by the serialization of what this request's own
\* search body parsed to.
FollowedBy(text, chunk, part) ==
  \E i \in 1..Len(text) :
    /\ text[i] = chunk
    /\ \E j \in (i + 1)..Len(text) :
         /\ j + Len(part) - 1 <= Len(text)
         /\ SubSeq(text, j, j + Len(part) - 1) = part
C5_PromptMessages ==
  \A r \in Requests :
    \A i \in DOMAIN calls[r] :
      calls[r][i].service = "generation" =>
        LET m == calls[r][i].request.messages
        IN  /\ Len(m) = 2
            /\ m[1] = [role |-> "system",
                       content |-> <<"You are a helpful IKEA product assistant.">>]
            /\ m[2].role = "user"
            /\ Got200(r)
            /\ ikea_data[r] # None
            /\ ikea_data[r] = Json(answers[r][1].text)
            /\ FollowedBy(m[2].content, INSTRUCTION, PyStr(Get(ikea_data[r])))

C5_Witness ==
  \E r, s \in Requests :
    /\ CallsTo(r, "generation") = 1
    /\ CallsTo(s, "generation") = 1
    /\ ikea_data[r] = Some(<<7>>)
    /\ ikea_data[s] = Some(<<7, 8>>)
    /\ PyStr(Get(ikea_data[s])) # answers[s][1].text
    /\ calls[r][2].request.messages # calls[s][2].request.messages

C7_OnlyNon200Handled ==
  \A r \in Requests :
    /\ (result[r] = Some(FailureBody)) <=> GotNon200(r)
    /\ GotTransportFault(r) => Faulted(r)
    /\ GotUnparsable(r) => Faulted(r)
    /\ GotGenFault(r) => Faulted(r)
    /\ GotNoChoices(r) => Faulted(r)

C7_Witness ==
  \E r, s \in Requests :
    /\ GotUnparsable(r) /\ Faulted(r)
    /\ GotNoChoices(s) /\ Faulted(s)

\* C8: the generation call is issued only after this request's search call
\* has answered 200 and the body has parsed: never while the search call is
\* outstanding, never after a non-200 answer.
C8_SearchThenGenerate ==
  \A r \in Requests :
    /\ (pc[r] \in {"idle", "search_pending", "search_hung"}) =>
         CallsTo(r, "generation") = 0
    /\ GotNon200(r) => CallsTo(r, "generation") = 0
    /\ CallsTo(r, "generation") > 0 =>
         /\ Got200(r)
         /\ ikea_data[r] # None
         /\ Len(calls[r]) = 2
         /\ calls[r][1].service = "search"
         /\ calls[r][2].service = "generation"

C8_Witness ==
  \E r, s \in Requests :
    /\ pc[r] = "gen_pending" /\ Got200(r) /\ calls[r][2].service = "generation"
    /\ GotNon200(s) /\ CallsTo(s, "generation") = 0

\* C9: when outstanding calls that are not hung get answered, every invoked
\* request ends up completed or hung (again and again no request is left
\* with a call that can still be answered), and a request one of whose calls
\* never returns stays blocked in that call and never completes.
Settled(r) == pc[r] = "idle" \/ Completed(r) \/ Hung(r)
C9_Termination ==
  /\ []<>(\A r \in Requests : Settled(r))
  /\ [][\A r \in Requests : Hung(r) => (Hung(r)' /\ ~Completed(r)')]_vars

C9_Witness ==
  \E r, s \in Requests :
    /\ pc[r] = "gen_hung"
    /\ pc[s] = "returned" /\ GotChoices(s)

\* C10: under any interleaving a request's outcome is a function of its own
\* query and of the answers to its own calls, and the module-level names are
\* never modified.
Expected(q, ans) ==
  IF ans[1].kind = "ConnectionError" THEN [result |-> None, fault |-> Some("ConnectionError")]
  ELSE IF ans[1].status_code # 200 THEN [result |-> Some(FailureBody), fault |-> None]
  ELSE IF Truncated(ans[1].text) THEN [result |-> None, fault |-> Some("JSONDecodeError")]
  ELSE IF ans[2].kind = "OpenAIError" THEN [result |-> None, fault |-> Some("OpenAIError")]
  ELSE IF Len(ans[2].choices) = 0 THEN [result |-> None, fault |-> Some("IndexError")]
  ELSE [result |-> Some([query |-> q, response |-> ans[2].choices[1].message.content]),
        fault |-> None]
C10_Isolation ==
  /\ config = Config0
  /\ \A r \in Requests :
       Completed(r) =>
         [result |-> result[r], fault |-> fault[r]] = Expected(Get(query[r]), answers[r])

C10_Witness ==
  \E r, s \in Requests :
    /\ r # s
    /\ pc[r] = "returned" /\ GotChoices(r)
    /\ pc[s] \in {"search_hung", "faulted"}
    /\ query[r] # query[s]
    /\ query[s] # None


====
